---- MODULE Spec2Model ----
(***************************************************************************)
(* crules: deployment of rule and note files from a template tree.         *)
(*                                                                         *)
(* Two implementations live in the repository and both are modelled:       *)
(*   - the package  src/crules/crules/{utils,commands}.py  (operators      *)
(*     without suffix), whose commands work relative to the current        *)
(*     directory;                                                          *)
(*   - the modules  src/crules/{utils,commands}.py  (operators with the    *)
(*     suffix _outer), whose commands take explicit directories.           *)
(*                                                                         *)
(* A text is modelled as the list  content.split("\n") : the text          *)
(* "a\nb\n" is <<"a", "b", "">>, the empty text is <<"">>.  A path is a    *)
(* record [dir, stem, ext]: the directory components, the file name up to  *)
(* its first suffix, and the list of suffixes ("a.mdc.<ts>.bak" has        *)
(* ext = <<"mdc", ts, "bak">>).                                            *)
(***************************************************************************)
EXTENDS Integers, Sequences, FiniteSets, TLC

VARIABLES fs, dirs, steps, last

vars == <<fs, dirs, steps, last>>

\* Number of operations in one behaviour.
MaxSteps == 2

\* The copy of a run that can fail is one of its first MaxCopies copies.
MaxCopies == 2

-----------------------------------------------------------------------------
(* Lines of text.                                                          *)

\* str.startswith("---") on one line.
StartsWithDashes(line) == line \in {"---", "--- ", "---x"}

\* The line matches the regular expression  ---\s*  in full.
DashesThenSpace(line) == line \in {"---", "--- "}

\* The line matches  \s*  in full (str.strip() leaves nothing).
IsBlank(line) == line \in {"", " "}

\* Bytes of one line, without its newline.  "<1MiB>" stands for a body line
\* of 1024 * 1024 characters.
LineBytes(line) ==
    CASE line = "" -> 0
      [] line = " " -> 1
      [] line = "---" -> 3
      [] line = "--- " -> 4
      [] line = "---x" -> 4
      [] line = "<1MiB>" -> 1024 * 1024
      [] line = "description: <100>" -> 113
      [] line = "description: <101>" -> 114
      [] OTHER -> 8

RECURSIVE SumBytes(_)
SumBytes(text) ==
    IF text = <<>> THEN 0 ELSE LineBytes(Head(text)) + SumBytes(Tail(text))

\* os.path.getsize: the bytes of the lines and of the newlines between them.
getsize(text) == SumBytes(text) + (Len(text) - 1)

-----------------------------------------------------------------------------
(* yaml.safe_load on a block of lines.                                     *)

\* The key a "key: value" line defines, "" for a line that is no such line.
\* "<100>" and "<101>" stand for values of 100 and of 101 characters.
KeyOf(line) ==
    CASE line = "description: x" -> "description"
      [] line = "description: y" -> "description"
      [] line = "description: <100>" -> "description"
      [] line = "description: <101>" -> "description"
      [] line = "description: 2024" -> "description"
      [] line = "globs: [y]" -> "globs"
      [] line = "globs: []" -> "globs"
      [] line = "globs: y" -> "globs"
      [] line = "alwaysApply: false" -> "alwaysApply"
      [] line = "title: t" -> "title"
      [] OTHER -> ""

\* The value a "key: value" line gives its key: the Python type and, for a
\* str or a list, its len().
ValueOf(line) ==
    CASE line \in {"description: x", "description: y", "globs: y", "title: t"}
           -> [type |-> "str", len |-> 1]
      [] line = "description: <100>" -> [type |-> "str", len |-> 100]
      [] line = "description: <101>" -> [type |-> "str", len |-> 101]
      [] line = "description: 2024" -> [type |-> "int", len |-> 0]
      [] line = "globs: [y]" -> [type |-> "list", len |-> 1]
      [] line = "globs: []" -> [type |-> "list", len |-> 0]
      [] OTHER -> [type |-> "bool", len |-> 0]

IsListItem(line) == line \in {"- item", "- description"}

\* The string a "- item" line adds to the list.
ItemOf(line) == IF line = "- description" THEN "description" ELSE "item"

IsBadYaml(line) == line = "{bad"

\* A document start marker: --- at the start of a line, white space after.
IsDocMarker(line) == line \in {"---", "--- "}

\* The line starts a plain scalar.
IsPlain(line) ==
    /\ KeyOf(line) = ""
    /\ ~IsListItem(line) /\ ~IsBadYaml(line) /\ ~IsDocMarker(line)

\* The field names that are substrings of the line.
NamesIn(line) ==
    CASE line = "description globs" -> {"description", "globs"}
      [] line = "- description" -> {"description"}
      [] OTHER -> {}

NonBlank(block) == SelectSeq(block, LAMBDA l : ~IsBlank(l))

Range(s) == {s[i] : i \in 1..Len(s)}

\* The document of a block: its lines that are not blank, without a
\* leading document start marker.
Document(block) ==
    LET nb == NonBlank(block)
    IN  IF nb # <<>> /\ IsDocMarker(Head(nb)) THEN Tail(nb) ELSE nb

\* The value yaml.safe_load gives: kind is "map" (a dict, with its keys),
\* "null" (None), "scalar", "list", or "error" (yaml.YAMLError is raised).
\* A plain scalar goes on over the lines that follow it, a "key: value"
\* line among them is an error.
safe_load(block) ==
    LET doc == Document(block)
        ls == Range(doc)
    IN  IF \E l \in ls : IsDocMarker(l)
          THEN [kind |-> "error", keys |-> {}]
        ELSE IF doc = <<>>
          THEN [kind |-> "null", keys |-> {}]
        ELSE IF IsPlain(Head(doc))
          THEN IF \A l \in ls : KeyOf(l) = ""
                 THEN [kind |-> "scalar", keys |-> {}]
                 ELSE [kind |-> "error", keys |-> {}]
        ELSE IF \E l \in ls : IsBadYaml(l)
          THEN [kind |-> "error", keys |-> {}]
        ELSE IF \A l \in ls : KeyOf(l) # ""
          THEN [kind |-> "map", keys |-> {KeyOf(l) : l \in ls}]
        ELSE IF \A l \in ls : IsListItem(l)
          THEN [kind |-> "list", keys |-> {}]
        ELSE [kind |-> "error", keys |-> {}]

\* The names for which  name in yaml.safe_load(block)  is True: the keys
\* of a dict, the items of a list, the substrings of a str.
members(block) ==
    LET doc == Document(block)
        kind == safe_load(block).kind
    IN  IF kind = "map" THEN {KeyOf(l) : l \in Range(doc)}
        ELSE IF kind = "list" THEN {ItemOf(l) : l \in Range(doc)}
        ELSE IF kind = "scalar" THEN UNION {NamesIn(l) : l \in Range(doc)}
        ELSE {}

\* front_matter[key] of the dict yaml.safe_load(block) gives: the value of
\* the last line that defines key.
item(block, key) ==
    LET doc == Document(block)
        defs == {i \in 1..Len(doc) : KeyOf(doc[i]) = key}
    IN  ValueOf(doc[CHOOSE i \in defs : \A k \in defs : k <= i])

-----------------------------------------------------------------------------
(* Front matter, package utils (src/crules/crules/utils.py).               *)

SetMax(S) == CHOOSE x \in S : \A y \in S : y <= x

SetMin(S) == CHOOSE x \in S : \A y \in S : x <= y

\* Where  ^---\s*\n  can end: after line i (line 1 is --- and white space,
\* the lines 2..i are blank, and a newline follows line i).
OpenEnds(text) ==
    {i \in 1..(Len(text) - 1) :
        /\ DashesThenSpace(text[1])
        /\ \A k \in 2..i : IsBlank(text[k])}

\* Where  \n---\s*\n  can match after an opening that ended with line i.
CloseAfter(text, i) ==
    {j \in (i + 2)..(Len(text) - 1) : DashesThenSpace(text[j])}

\* re.search(r"^---\s*\n(.*?)\n---\s*\n", content, re.DOTALL): the greedy
\* \s* takes the longest opening that still lets the rest match, the lazy
\* group ends at the first closing line after it.
FrontMatterMatch(text) ==
    LET ends == {i \in OpenEnds(text) : CloseAfter(text, i) # {}}
    IN  IF ends = {}
          THEN [found |-> FALSE, block |-> <<>>]
          ELSE LET i == SetMax(ends)
                   j == SetMin(CloseAfter(text, i))
               IN  [found |-> TRUE, block |-> SubSeq(text, i + 1, j - 1)]

\* read_yaml_front_matter(content): the dict's keys, or ValidationError.
read_yaml_front_matter(text) ==
    LET m == FrontMatterMatch(text)
        y == safe_load(m.block)
    IN  IF ~m.found \/ y.kind # "map"
          THEN [raised |-> TRUE, keys |-> {}]
          ELSE [raised |-> FALSE, keys |-> y.keys]

validate_yaml_front_matter(keys) == {"description", "globs"} \subseteq keys

\* validate_file_content(file_path, required_fields): a bool, True for a
\* text that passes.
validate_file_content(text, required_fields) ==
    IF text = <<"">>
      THEN FALSE
      ELSE LET fm == read_yaml_front_matter(text)
           IN  IF fm.raised
                 THEN FALSE
               ELSE IF required_fields # <<>>
                 THEN \A f \in Range(required_fields) : f \in fm.keys
               ELSE validate_yaml_front_matter(fm.keys)

\* validate_file_structure(file_path): a bool, True for a text that passes.
validate_file_structure(text) ==
    IF text = <<"">> \/ ~StartsWithDashes(text[1])
      THEN FALSE
      ELSE LET closes == {i \in 2..Len(text) : text[i] = "---"}
           IN  IF closes = {}
                 THEN FALSE
                 ELSE LET e == SetMin(closes)
                          y == safe_load(SubSeq(text, 2, e - 1))
                      IN  /\ y.kind = "map"
                          /\ validate_yaml_front_matter(y.keys)
                          /\ Len(text) > e
                          /\ \E i \in (e + 1)..Len(text) : ~IsBlank(text[i])

\* validate_file_format(file_path, allowed_extensions): os.path.splitext
\* gives the last suffix.
validate_file_format(path, allowed_extensions) ==
    /\ path.ext # <<>>
    /\ path.stem # "" \/ Len(path.ext) > 1
    /\ path.ext[Len(path.ext)] \in allowed_extensions

\* validate_file_size(file_path, max_size)
validate_file_size(text, max_size) == getsize(text) <= max_size

-----------------------------------------------------------------------------
(* Paths and the file system.  fs maps every existing file to its text;    *)
(* dirs is the set of existing directories.                                *)

P(dir, stem, ext) == [dir |-> dir, stem |-> stem, ext |-> ext]

\* The template tree, relative to the current directory.
TemplateDir == <<"template">>
RulesDir == <<"template", "rules">>
RulesSubDir == <<"template", "rules", "sub">>
NotesDir == <<"template", "notes">>

SrcA == P(RulesDir, "a", <<"md">>)
SrcC == P(RulesSubDir, "c", <<"md">>)
SrcT == P(RulesDir, "t", <<"txt">>)
SrcN == P(NotesDir, "n", <<"md">>)

\* The sources resolve_conflict is called with.
CallSources == {SrcA, SrcC, SrcN}

\* Texts of the template files.
RuleOK ==
    <<"---", "description: x", "globs: [y]", "alwaysApply: false", "---",
      "body", "">>
RuleOK2 ==
    <<"---", "description: y", "globs: [y]", "alwaysApply: false", "---",
      "body", "">>
NoteOK == <<"---", "description: x", "---", "body", "">>
NoDesc == <<"---", "title: t", "---", "body", "">>
NoFM == <<"body", "">>
TooBig ==
    <<"---", "description: x", "globs: [y]", "alwaysApply: false", "---",
      "<1MiB>", "">>

Exists(f, path) == path \in DOMAIN f

\* f with the file at path holding text.
WriteTo(f, path, text) ==
    [q \in DOMAIN f \cup {path} |-> IF q = path THEN text ELSE f[q]]

\* f without the file at path.
Unlink(f, path) == [q \in DOMAIN f \ {path} |-> f[q]]

\* What a copy that fails part-way leaves in its destination: the
\* destination was opened for writing and holds the first line only.
Truncated(text) == <<text[1]>>

IoOutcomes == {"ok", "error", "partial"}

\* shutil.copy2(src, dst) under the outcome io: the file system after it,
\* whether it raised, and whether the device is what failed.  A destination
\* whose directory is missing raises FileNotFoundError, a destination that
\* is the source SameFileError, both before anything is written.
copy2(f, d, src, dst, io) ==
    IF dst.dir \notin d \/ src = dst
      THEN [fs |-> f, raised |-> TRUE, iofault |-> FALSE]
    ELSE IF io = "error"
      THEN [fs |-> f, raised |-> TRUE, iofault |-> TRUE]
    ELSE IF io = "ok"
      THEN [fs |-> WriteTo(f, dst, f[src]), raised |-> FALSE,
            iofault |-> FALSE]
    ELSE [fs |-> WriteTo(f, dst, Truncated(f[src])), raised |-> TRUE,
          iofault |-> TRUE]

-----------------------------------------------------------------------------
(* resolve_conflict, package utils.                                        *)

\* is_same_file(file1, file2): the definition in force is the later one of
\* the module, Path.samefile: both exist and are one and the same file.
is_same_file(f, file1, file2) ==
    Exists(f, file1) /\ Exists(f, file2) /\ file1 = file2

\* datetime.datetime.now().strftime("%Y%m%d_%H%M%S"): the module imports
\* the class (from datetime import datetime), and the class has no
\* attribute datetime, so the expression raises AttributeError and gives
\* no value.
timestamp == [raised |-> TRUE, value |-> "YYYYMMDD_HHMMSS"]

\* f"{target}.{timestamp}.bak"
backup_path(target, ts) == P(target.dir, target.stem, target.ext \o <<ts, "bak">>)

\* What resolve_conflict gives when its last copy has given c: True, or
\* ConflictError for the exception the copy raised.
copied(c, asked) ==
    [fs |-> c.fs, ret |-> IF c.raised THEN "ConflictError" ELSE "True",
     asked |-> asked, iofault |-> c.iofault]

\* shutil.copy2(source, target) once the backup copy has given b.
overwrite(b, d, source, target, asked) ==
    IF b.raised
      THEN [fs |-> b.fs, ret |-> "ConflictError", asked |-> asked,
            iofault |-> b.iofault]
      ELSE copied(copy2(b.fs, d, source, target, "ok"), asked)

\* The backup of the target under the name the timestamp ts gives, then
\* the overwrite; io is the outcome of the backup copy.
backup_and_overwrite(f, d, source, target, ts, io, asked) ==
    IF ts.raised
      THEN [fs |-> f, ret |-> "ConflictError", asked |-> asked,
            iofault |-> FALSE]
      ELSE overwrite(copy2(f, d, target, backup_path(target, ts.value), io),
                     d, source, target, asked)

\* resolve_conflict(source, target, force) with the operator's answer to
\* click.confirm and the outcome io of the first copy.  ret is "True",
\* "False" or the exception that leaves the function; asked tells whether
\* click.confirm was called, iofault whether a copy failed on the device.
resolve_conflict(f, d, source, target, force, answer, io) ==
    IF ~Exists(f, source)
      THEN [fs |-> f, ret |-> "ConflictError", asked |-> FALSE,
            iofault |-> FALSE]
    ELSE IF ~Exists(f, target)
      THEN copied(copy2(f, d, source, target, io), FALSE)
    ELSE IF ~force /\ is_same_file(f, source, target)
      THEN [fs |-> f, ret |-> "True", asked |-> FALSE, iofault |-> FALSE]
    ELSE IF ~force /\ ~answer
      THEN [fs |-> f, ret |-> "False", asked |-> TRUE, iofault |-> FALSE]
    ELSE backup_and_overwrite(f, d, source, target, timestamp, io, ~force)

-----------------------------------------------------------------------------
(* Walking a tree.                                                         *)

IsPrefix(a, b) == Len(a) <= Len(b) /\ SubSeq(b, 1, Len(a)) = a

FilesIn(f, dir) == {path \in DOMAIN f : path.dir = dir}

SubDirs(d, dir) == {x \in d : Len(x) = Len(dir) + 1 /\ IsPrefix(dir, x)}

RECURSIVE SeqPerms(_)
\* The orders in which the file system can list the members of S.
SeqPerms(S) ==
    IF S = {}
      THEN {<<>>}
      ELSE UNION {{<<x>> \o t : t \in SeqPerms(S \ {x})} : x \in S}

RECURSIVE WalkOrders(_, _, _)
RECURSIVE WalkEach(_, _, _)
\* The orders in which os.walk(root) can yield the files under root: the
\* files of root in the order the file system lists them, then the walk of
\* each subdirectory.  A root that does not exist yields nothing.
WalkOrders(f, d, root) ==
    IF root \notin d
      THEN {<<>>}
      ELSE {here \o below :
              here \in SeqPerms(FilesIn(f, root)),
              below \in UNION {WalkEach(f, d, subs) :
                                 subs \in SeqPerms(SubDirs(d, root))}}

\* The walks of the directories of the list subs, one after the other.
WalkEach(f, d, subs) ==
    IF subs = <<>>
      THEN {<<>>}
      ELSE {first \o rest :
              first \in WalkOrders(f, d, Head(subs)),
              rest \in WalkEach(f, d, Tail(subs))}

\* file.endswith('.md')
EndsWithMd(path) == path.ext # <<>> /\ path.ext[Len(path.ext)] = "md"

\* The .md files of a walk, in the order the walk yields them.
MdOrders(f, d, root) ==
    {SelectSeq(s, EndsWithMd) : s \in WalkOrders(f, d, root)}

\* os.path.relpath(root, top), as directory components.
relpath(dir, top) == SubSeq(dir, Len(top) + 1, Len(dir))

-----------------------------------------------------------------------------
(* init_command and deploy_command, package commands                       *)
(* (src/crules/crules/commands.py).                                        *)

\* validate_directory_hierarchy(directory)[0]
validate_directory_hierarchy(d, directory) ==
    /\ directory \in d
    /\ directory \o <<"rules">> \in d
    /\ directory \o <<"notes">> \in d

\* os.path.join('.cursor/rules', rel_path, splitext(file)[0] + '.mdc')
rule_target(source, top) ==
    P(<<".cursor", "rules">> \o relpath(source.dir, top), source.stem,
      SubSeq(source.ext, 1, Len(source.ext) - 1) \o <<"mdc">>)

\* os.path.join('.notes', rel_path, file)
note_target(source, top) ==
    P(<<".notes">> \o relpath(source.dir, top), source.stem, source.ext)

\* The state of one run: the file system, the exception that has left the
\* command ("none" while it runs), what the command gave its caller (the
\* value returned or the exception), the variable success, and what the run
\* did: the files visited, those handed to resolve_conflict, those for which
\* success was set to False, the targets the operator was asked about,
\* those the operator refused to overwrite, the files at which an exception
\* was raised, and whether a copy failed on the device.
NewRun(f) ==
    [fs |-> f, raised |-> "none", ret |-> "none", success |-> TRUE,
     visited |-> <<>>, reached |-> {}, failed |-> {}, asked |-> {},
     denied |-> {}, errored |-> {}, iofault |-> FALSE, calls |-> 0]

\* The file did not pass a check: the error is printed, success = False,
\* continue.
rejected(st, source) ==
    [st EXCEPT !.visited = Append(@, source),
               !.success = FALSE,
               !.failed = @ \cup {source}]

\* The exception exc is raised at the file and leaves the command.
raised_at(st, source, exc) ==
    [st EXCEPT !.visited = Append(@, source),
               !.raised = exc,
               !.errored = @ \cup {source}]

\* resolved without the statement success = False: a file whose
\* overwrite was refused is not counted.
resolved_uncounted(st, source, target, answer, r) ==
    [st EXCEPT !.visited = Append(@, source),
               !.fs = r.fs,
               !.reached = @ \cup {source},
               !.calls = @ + 1,
               !.asked = IF r.asked THEN @ \cup {target} ELSE @,
               !.denied = IF r.asked /\ ~answer THEN @ \cup {target} ELSE @,
               !.iofault = @ \/ r.iofault,
               !.raised = IF r.ret = "ConflictError" THEN r.ret ELSE @,
               !.errored = IF r.ret = "ConflictError"
                             THEN @ \cup {source} ELSE @]

\* if not utils.resolve_conflict(source, target, force): success = False,
\* where the call has given r.
resolved(st, source, target, answer, r) ==
    [st EXCEPT !.visited = Append(@, source),
               !.fs = r.fs,
               !.reached = @ \cup {source},
               !.calls = @ + 1,
               !.asked = IF r.asked THEN @ \cup {target} ELSE @,
               !.denied = IF r.asked /\ ~answer THEN @ \cup {target} ELSE @,
               !.iofault = @ \/ r.iofault,
               !.raised = IF r.ret = "ConflictError" THEN r.ret ELSE @,
               !.errored = IF r.ret = "ConflictError"
                             THEN @ \cup {source} ELSE @,
               !.success = IF r.ret = "False" THEN FALSE ELSE @,
               !.failed = IF r.ret = "False" THEN @ \cup {source} ELSE @]

\* The body of the loop over the .md files (the same text in the rules
\* loop of deploy_command and in both loops of init_command).  The two
\* validators return a bool and the command reads it as the list of what
\* is wrong: True enters the error branch, where ', '.join(True), or the
\* for loop over True, raises TypeError.  env holds the inputs of the run:
\* force, the operator's answers, and the outcome io of the failIdx-th
\* call of resolve_conflict.
place_file(st, d, source, target, env) ==
    IF ~validate_file_format(source, {"md"})
      THEN rejected(st, source)
    ELSE IF ~validate_file_size(st.fs[source], 1024 * 1024)
      THEN rejected(st, source)
    ELSE IF validate_file_content(st.fs[source], <<"description">>)
      THEN raised_at(st, source, "TypeError")
    ELSE IF validate_file_structure(st.fs[source])
      THEN raised_at(st, source, "TypeError")
    ELSE resolved(st, source, target, env.answers[source],
                  resolve_conflict(st.fs, d, source, target, env.force,
                      env.answers[source],
                      IF st.calls + 1 = env.failIdx THEN env.io ELSE "ok"))

RECURSIVE place_rules(_, _, _, _, _)
\* for root, _, files in os.walk(rules_path): ... from the i-th file on.
place_rules(st, d, order, i, env) ==
    IF i > Len(order) \/ st.raised # "none"
      THEN st
      ELSE place_rules(
             place_file(st, d, order[i], rule_target(order[i], RulesDir), env),
             d, order, i + 1, env)

RECURSIVE place_notes(_, _, _, _, _)
\* for root, _, files in os.walk(notes_path): ... from the i-th file on.
place_notes(st, d, order, i, env) ==
    IF i > Len(order) \/ st.raised # "none"
      THEN st
      ELSE place_notes(
             place_file(st, d, order[i], note_target(order[i], NotesDir), env),
             d, order, i + 1, env)

\* What leaves a command: the exception, or the value returned.
Returned(st, value) ==
    [st EXCEPT !.ret = IF st.raised # "none" THEN st.raised ELSE value]

Bool(b) == IF b THEN "True" ELSE "False"

\* return success
ReturnedSuccess(st) == Returned(st, Bool(st.success))

\* deploy_command(None, force): the rules are placed and the command
\* returns.  rorder is the order of the walk of template/rules.
deploy_command(f, d, rorder, env) ==
    IF TemplateDir \notin d
      THEN Returned(NewRun(f), "False")
    ELSE IF ~validate_directory_hierarchy(d, TemplateDir)
      THEN Returned(NewRun(f), "False")
    ELSE IF RulesDir \in d
      THEN ReturnedSuccess(place_rules(NewRun(f), d, rorder, 1, env))
    ELSE Returned(NewRun(f), "False")

\* if os.path.exists(rules_path): the loop over the rules.
init_rules(f, d, rorder, env) ==
    IF RulesDir \in d
      THEN place_rules(NewRun(f), d, rorder, 1, env)
      ELSE NewRun(f)

\* if os.path.exists(notes_path): success = True, the loop over the notes.
init_notes(st, d, norder, env) ==
    IF NotesDir \in d
      THEN place_notes([st EXCEPT !.success = TRUE], d, norder, 1, env)
      ELSE st

\* init_command(None, force): the rules, then the notes with success set
\* to True again, then return True.
init_command(f, d, rorder, norder, env) ==
    IF TemplateDir \notin d
      THEN Returned(NewRun(f), "False")
    ELSE IF ~validate_directory_hierarchy(d, TemplateDir)
      THEN Returned(NewRun(f), "False")
    ELSE Returned(init_notes(init_rules(f, d, rorder, env), d, norder, env),
                  "True")

\* The body of the two loops of validate_command: the checks of the
\* other commands, read the same way, and nothing is copied.
check_file(st, source) ==
    IF ~validate_file_format(source, {"md"})
      THEN rejected(st, source)
    ELSE IF ~validate_file_size(st.fs[source], 1024 * 1024)
      THEN rejected(st, source)
    ELSE IF validate_file_content(st.fs[source], <<"description">>)
      THEN raised_at(st, source, "TypeError")
    ELSE IF validate_file_structure(st.fs[source])
      THEN raised_at(st, source, "TypeError")
    ELSE [st EXCEPT !.visited = Append(@, source)]

RECURSIVE check_files(_, _, _)
\* for root, _, files in os.walk(...): ... from the i-th file on.
check_files(st, order, i) ==
    IF i > Len(order) \/ st.raised # "none"
      THEN st
      ELSE check_files(check_file(st, order[i]), order, i + 1)

\* validate_command(None): the hierarchy, then the loop over the rules
\* and the loop over the notes (both directories exist once the hierarchy
\* has passed), then return success.
validate_command(f, d, rorder, norder) ==
    IF TemplateDir \notin d
      THEN Returned(NewRun(f), "False")
    ELSE IF ~validate_directory_hierarchy(d, TemplateDir)
      THEN Returned(NewRun(f), "False")
    ELSE ReturnedSuccess(check_files(check_files(NewRun(f), rorder, 1),
                                     norder, 1))

\* f"{file_path}.bak"
bak_path(file_path) ==
    P(file_path.dir, file_path.stem, file_path.ext \o <<"bak">>)

\* backup_file(file_path): the copy under the fixed name, whose outcome
\* is io; any exception is printed and None is returned.
backup_file(f, d, file_path, io) ==
    IF ~Exists(f, file_path)
      THEN [fs |-> f, ret |-> "None", asked |-> FALSE, iofault |-> FALSE]
      ELSE LET c == copy2(f, d, file_path, bak_path(file_path), io)
           IN  [fs |-> c.fs, ret |-> IF c.raised THEN "None" ELSE "path",
                asked |-> FALSE, iofault |-> c.iofault]

-----------------------------------------------------------------------------
(* src/crules/utils.py and src/crules/commands.py.                         *)

\* Path.mkdir(parents=True, exist_ok=True)
mkdir_parents(d, dir) == d \cup {SubSeq(dir, 1, k) : k \in 0..Len(dir)}

\* resolve_conflict(source_path, target_path, force) of src/crules/utils.py;
\* io is the outcome of target_path.unlink().
resolve_conflict_outer(f, source, target, force, io) ==
    IF ~Exists(f, source)
      THEN [fs |-> f, ret |-> "FileOperationError", asked |-> FALSE,
            iofault |-> FALSE]
    ELSE IF Exists(f, target) /\ force /\ io = "ok"
      THEN [fs |-> Unlink(f, target), ret |-> "True", asked |-> FALSE,
            iofault |-> FALSE]
    ELSE IF Exists(f, target) /\ force
      THEN [fs |-> f, ret |-> "FileOperationError", asked |-> FALSE,
            iofault |-> TRUE]
    ELSE IF Exists(f, target)
      THEN [fs |-> f, ret |-> "False", asked |-> FALSE, iofault |-> FALSE]
    ELSE [fs |-> f, ret |-> "True", asked |-> FALSE, iofault |-> FALSE]

\* rules_dir / relative_path.with_suffix(".mdc")
rule_target_outer(source, top, target_dir) ==
    P(target_dir \o <<".cursor", "rules">> \o relpath(source.dir, top),
      source.stem, SubSeq(source.ext, 1, Len(source.ext) - 1) \o <<"mdc">>)

\* notes_dir / relative_path
note_target_outer(source, top, target_dir) ==
    P(target_dir \o <<"notes">> \o relpath(source.dir, top), source.stem,
      source.ext)

\* The state of one run of a command of src/crules/commands.py, which
\* creates directories too; it asks nothing and counts no failure.
NewRunOuter(f, d) ==
    [fs |-> f, dirs |-> d, raised |-> "none", ret |-> "none",
     visited |-> <<>>, reached |-> {}, failed |-> {}, asked |-> {},
     denied |-> {}, errored |-> {}, iofault |-> FALSE, calls |-> 0]

\* shutil.copy2(source, target) of a run, where the copy has given c.
copied_outer(st, source, c) ==
    [st EXCEPT !.fs = c.fs,
               !.reached = @ \cup {source},
               !.calls = @ + 1,
               !.raised = IF c.raised THEN "Exception" ELSE "none",
               !.errored = IF c.raised THEN @ \cup {source} ELSE @,
               !.iofault = @ \/ c.iofault]

\* copy_if_absent without its test: the copy is made whether the target
\* exists or not.
copy_always(st, source, target, env) ==
    copied_outer(st, source,
        copy2(st.fs, st.dirs, source, target,
              IF st.calls + 1 = env.failIdx THEN env.io ELSE "ok"))

\* if not target_file.exists() or force: shutil.copy2(source, target)
copy_if_absent(st, source, target, env) ==
    IF ~Exists(st.fs, target) \/ env.force
      THEN copied_outer(st, source,
               copy2(st.fs, st.dirs, source, target,
                     IF st.calls + 1 = env.failIdx THEN env.io ELSE "ok"))
      ELSE st

\* ensure_directory(target_file.parent), then the copy unless the target
\* exists and force is not set.
copy_unless_exists(st, source, target, env) ==
    copy_if_absent([st EXCEPT !.visited = Append(@, source),
                              !.dirs = mkdir_parents(@, target.dir)],
                   source, target, env)

RECURSIVE copy_rules_outer(_, _, _, _, _, _)
\* for rule_file in rules_source.glob("**/*.md"): ... from the i-th on.
copy_rules_outer(st, order, i, top, target_dir, env) ==
    IF i > Len(order) \/ st.raised # "none"
      THEN st
      ELSE copy_rules_outer(
             copy_unless_exists(st, order[i],
                 rule_target_outer(order[i], top, target_dir), env),
             order, i + 1, top, target_dir, env)

RECURSIVE copy_notes_outer(_, _, _, _, _, _)
\* for note_file in notes_source.glob("**/*.md"): ... from the i-th on.
copy_notes_outer(st, order, i, top, target_dir, env) ==
    IF i > Len(order) \/ st.raised # "none"
      THEN st
      ELSE copy_notes_outer(
             copy_unless_exists(st, order[i],
                 note_target_outer(order[i], top, target_dir), env),
             order, i + 1, top, target_dir, env)

\* return True, or return False in the handler of every exception.
ReturnedOuter(st) ==
    [st EXCEPT !.ret = IF st.raised # "none" THEN "False" ELSE "True"]

\* if rules_source.exists(): the loop over the rules.
deploy_rules_outer(st, template_dir, target_dir, rorder, env) ==
    IF template_dir \o <<"rules">> \in st.dirs
      THEN copy_rules_outer(st, rorder, 1, template_dir \o <<"rules">>,
                            target_dir, env)
      ELSE st

\* if notes_source.exists(): the loop over the notes.
deploy_notes_outer(st, template_dir, target_dir, norder, env) ==
    IF template_dir \o <<"notes">> \in st.dirs
      THEN copy_notes_outer(st, norder, 1, template_dir \o <<"notes">>,
                            target_dir, env)
      ELSE st

\* deploy_command(template_dir, target_dir, force) of src/crules/commands.py:
\* every exception is caught and the command returns False.
deploy_command_outer(f, d, template_dir, target_dir, rorder, norder, env) ==
    IF template_dir \notin d
      THEN [NewRunOuter(f, d) EXCEPT !.ret = "False"]
      ELSE ReturnedOuter(
             deploy_notes_outer(
               deploy_rules_outer(
                 NewRunOuter(f,
                   mkdir_parents(
                     mkdir_parents(d, target_dir \o <<".cursor", "rules">>),
                     target_dir \o <<"notes">>)),
                 template_dir, target_dir, rorder, env),
               template_dir, target_dir, norder, env))

\* project_path / relative_path
project_target(source, top, project_dir) ==
    P(project_dir \o relpath(source.dir, top), source.stem, source.ext)

RECURSIVE copy_template_outer(_, _, _, _, _, _)
\* for template_file in template_path.glob("**/*"): ... from the i-th on.
copy_template_outer(st, order, i, top, project_dir, env) ==
    IF i > Len(order) \/ st.raised # "none"
      THEN st
      ELSE copy_template_outer(
             copy_unless_exists(st, order[i],
                 project_target(order[i], top, project_dir), env),
             order, i + 1, top, project_dir, env)

\* return None, or ValidationError for the exception of a copy.
ReturnedInitOuter(st) ==
    [st EXCEPT !.ret = IF st.raised # "none" THEN "ValidationError"
                                              ELSE "None"]

\* The command from the test template_path.exists() on.
init_from_template(st, project_dir, template_dir, order, env) ==
    IF template_dir \notin st.dirs
      THEN [st EXCEPT !.ret = "FileOperationError"]
      ELSE ReturnedInitOuter(
             copy_template_outer(st, order, 1, template_dir, project_dir, env))

\* init_command(project_dir, template_dir, force) of src/crules/commands.py:
\* the project directory is made first; the command returns None, raises
\* FileOperationError for a missing template and ValidationError for
\* every other exception.
init_command_outer(f, d, project_dir, template_dir, order, env) ==
    init_from_template(NewRunOuter(f, mkdir_parents(d, project_dir)),
                       project_dir, template_dir, order, env)

-----------------------------------------------------------------------------
(* The state machine.  Every action is one call of an operation on the     *)
(* file system; last records the call for the properties below.            *)

TgtA == P(<<".cursor", "rules">>, "a", <<"mdc">>)

TemplateDirs == {<<>>, TemplateDir, RulesDir, RulesSubDir}

TargetDirs ==
    {<<".cursor">>, <<".cursor", "rules">>, <<".cursor", "rules", "sub">>,
     <<"notes">>, <<".notes">>}

ProjectDir == <<"proj">>

NoPath == P(<<>>, "", <<>>)

\* The file system that holds the files of pairs whose text is not <<>>.
FileSystemOf(pairs) ==
    LET present == {pr \in pairs : pr[2] # <<>>}
    IN  [path \in {pr[1] : pr \in present} |->
            (CHOOSE pr \in present : pr[1] = path)[2]]

NoCall ==
    [op |-> "none", source |-> NoPath, target |-> NoPath, force |-> FALSE,
     pre |-> << >>, ret |-> "none", asked |-> {}, denied |-> {},
     order |-> <<>>, visited |-> <<>>, reached |-> {}, failed |-> {},
     errored |-> {}, iofault |-> FALSE, predirs |-> {}, exit |-> -1,
     template |-> <<>>]

\* The trees the commands start from: a template with rules/ (rd) or
\* without it, with notes/ (nd) or without it, and a working directory
\* with the target directories (td) or without them.
Init ==
    \E a \in {RuleOK, NoFM, TooBig}, c \in {<<>>, NoDesc},
       n \in {<<>>, NoteOK, NoDesc}, nd \in BOOLEAN, td \in BOOLEAN,
       rd \in BOOLEAN :
      \E ta \in {<<>>, RuleOK2, a} :
        /\ (ta # <<>>) => td
        /\ (n # <<>>) => nd
        /\ ~rd => a = RuleOK /\ c = <<>> /\ ta # a
        /\ fs = FileSystemOf(IF rd
                               THEN {<<SrcA, a>>, <<SrcC, c>>, <<SrcT, NoFM>>,
                                     <<SrcN, n>>, <<TgtA, ta>>}
                               ELSE {<<SrcN, n>>, <<TgtA, ta>>})
        /\ dirs = (IF rd THEN TemplateDirs ELSE {<<>>, TemplateDir})
                     \cup (IF nd THEN {NotesDir} ELSE {})
                     \cup (IF td THEN TargetDirs ELSE {})
        /\ steps = 0
        /\ last = NoCall

\* The target of a template file in the current directory.
TargetFor(source) ==
    IF IsPrefix(RulesDir, source.dir)
      THEN rule_target(source, RulesDir)
      ELSE note_target(source, NotesDir)

\* The answers the operator can give for the files of a run: yes or no
\* where the target exists and force is not set, and no answer is ever
\* read elsewhere.
Answers(files, force) ==
    {answers \in [files -> BOOLEAN] :
        \A x \in files : answers[x] => ~force /\ Exists(fs, TargetFor(x))}

\* The inputs of one run: force, the operator's answer for each file, and
\* the outcome io of the failIdx-th copy (every other copy succeeds).
Envs(files) ==
    UNION {{[force |-> force, answers |-> answers, failIdx |-> k, io |-> io] :
              answers \in Answers(files, force), k \in 1..MaxCopies,
              io \in IoOutcomes} : force \in BOOLEAN} \
    [force : BOOLEAN, answers : [files -> BOOLEAN], failIdx : 2..MaxCopies,
     io : {"ok"}]

\* One call of resolve_conflict that has given r: the file system is the
\* one it leaves, and last records the call.
ResolveCall(op, source, target, force, answer, r) ==
    /\ fs' = r.fs
    /\ last' = [NoCall EXCEPT !.op = op,
                              !.source = source,
                              !.target = target,
                              !.force = force,
                              !.pre = fs,
                              !.predirs = dirs,
                              !.ret = r.ret,
                              !.asked = IF r.asked THEN {target} ELSE {},
                              !.denied = IF r.asked /\ ~answer
                                           THEN {target} ELSE {},
                              !.iofault = r.iofault]

\* The commands of the package, which cli.py runs.
CliCommands == {"init_command", "deploy_command", "validate_command"}

\* The exit status of the crules invocation that runs a command which
\* has given ret.  Every command function of cli.py is the one statement
\* commands.<name>_command(...): what the command returns is dropped, the
\* function returns None and the process ends with status 0; an exception
\* that leaves the command ends the process with status 1.
cli_exit(ret) == IF ret \in {"True", "False"} THEN 0 ELSE 1

\* One run of a command on the template directory template that has
\* given r, over the files of order.
RunCall(op, template, force, order, r) ==
    /\ fs' = r.fs
    /\ last' = [NoCall EXCEPT !.op = op,
                              !.template = template,
                              !.force = force,
                              !.pre = fs,
                              !.predirs = dirs,
                              !.exit = IF op \in CliCommands
                                         THEN cli_exit(r.ret) ELSE -1,
                              !.ret = r.ret,
                              !.asked = r.asked,
                              !.denied = r.denied,
                              !.order = order,
                              !.visited = r.visited,
                              !.reached = r.reached,
                              !.failed = r.failed,
                              !.errored = r.errored,
                              !.iofault = r.iofault]

\* One run of a command of src/crules/commands.py, which makes directories.
RunCallOuter(op, template, force, order, r) ==
    /\ RunCall(op, template, force, order, r)
    /\ dirs' = r.dirs

\* utils.resolve_conflict(source, target, force) of the package, for a
\* source of the set sources, while fewer than bound calls were made.
ResolveConflictOf(sources, bound) ==
    /\ steps < bound
    /\ \E source \in sources, force \in BOOLEAN, answer \in BOOLEAN,
          io \in IoOutcomes :
         \E target \in {TargetFor(source), source} :
           /\ answer => ~force /\ Exists(fs, target)
           /\ ResolveCall("resolve_conflict", source, target, force, answer,
                          resolve_conflict(fs, dirs, source, target, force,
                                           answer, io))
    /\ steps' = steps + 1
    /\ UNCHANGED dirs

ResolveConflict == ResolveConflictOf(CallSources, MaxSteps)

\* utils.resolve_conflict(source_path, target_path, force) of src/crules.
ResolveConflictOuterOf(sources, bound) ==
    /\ steps < bound
    /\ \E source \in sources, force \in BOOLEAN, io \in {"ok", "error"} :
         \E target \in {TargetFor(source), source} :
           ResolveCall("resolve_conflict_outer", source, target, force, FALSE,
                       resolve_conflict_outer(fs, source, target, force, io))
    /\ steps' = steps + 1
    /\ UNCHANGED dirs

ResolveConflictOuter == ResolveConflictOuterOf(CallSources, MaxSteps)

\* commands.deploy_command(None, force) of the package.
DeployCommand ==
    /\ steps < MaxSteps
    /\ \E rorder \in MdOrders(fs, dirs, RulesDir) :
         \E env \in Envs(Range(rorder)) :
           RunCall("deploy_command", TemplateDir, env.force, rorder,
                   deploy_command(fs, dirs, rorder, env))
    /\ steps' = steps + 1
    /\ UNCHANGED dirs

\* commands.init_command(None, force) of the package.
InitCommand ==
    /\ steps < MaxSteps
    /\ \E rorder \in MdOrders(fs, dirs, RulesDir),
          norder \in MdOrders(fs, dirs, NotesDir) :
         \E env \in Envs(Range(rorder) \cup Range(norder)) :
           RunCall("init_command", TemplateDir, env.force,
                   rorder \o norder,
                   init_command(fs, dirs, rorder, norder, env))
    /\ steps' = steps + 1
    /\ UNCHANGED dirs

\* commands.deploy_command(template_dir, None, force) of src/crules: the
\* target directory is the current directory.
DeployCommandOuter ==
    /\ steps < MaxSteps
    /\ \E template_dir \in {TemplateDir, <<"nowhere">>} :
         \E rorder \in MdOrders(fs, dirs, template_dir \o <<"rules">>),
            norder \in MdOrders(fs, dirs, template_dir \o <<"notes">>) :
           \E env \in Envs({}) :
             RunCallOuter("deploy_command_outer", template_dir, env.force,
                          rorder \o norder,
                          deploy_command_outer(fs, dirs, template_dir, <<>>,
                                               rorder, norder, env))
    /\ steps' = steps + 1

\* commands.init_command(project_dir, template_dir, force) of src/crules.
InitCommandOuter ==
    /\ steps < MaxSteps
    /\ \E template_dir \in {TemplateDir, <<"nowhere">>} :
         \E order \in WalkOrders(fs, dirs, template_dir) :
           \E env \in Envs({}) :
             RunCallOuter("init_command_outer", template_dir, env.force,
                          order,
                          init_command_outer(fs, dirs, ProjectDir,
                                             template_dir, order, env))
    /\ steps' = steps + 1

\* commands.validate_command(None) of the package.
ValidateCommand ==
    /\ steps < MaxSteps
    /\ \E rorder \in MdOrders(fs, dirs, RulesDir),
          norder \in MdOrders(fs, dirs, NotesDir) :
         RunCall("validate_command", TemplateDir, FALSE, rorder \o norder,
                 validate_command(fs, dirs, rorder, norder))
    /\ steps' = steps + 1
    /\ UNCHANGED dirs

\* utils.backup_file(file_path) of the package, while fewer than bound
\* calls were made.
BackupFileWithin(bound) ==
    /\ steps < bound
    /\ \E io \in IoOutcomes :
         ResolveCall("backup_file", TgtA, bak_path(TgtA), FALSE, FALSE,
                     backup_file(fs, dirs, TgtA, io))
    /\ steps' = steps + 1
    /\ UNCHANGED dirs

BackupFile == BackupFileWithin(MaxSteps)

Next ==
    \/ ResolveConflict
    \/ ResolveConflictOuter
    \/ DeployCommand
    \/ InitCommand
    \/ DeployCommandOuter
    \/ InitCommandOuter
    \/ ValidateCommand
    \/ BackupFile

Spec == Init /\ [][Next]_vars

-----------------------------------------------------------------------------
(* Sequences of calls on one target: resolve_conflict of both modules and  *)
(* backup_file, for template/rules/a.md and .cursor/rules/a.mdc.           *)

MaxOverwrites == 4

InitOverwrites ==
    \E a \in {RuleOK, NoFM}, ta \in {<<>>, RuleOK2, RuleOK} :
      /\ fs = FileSystemOf({<<SrcA, a>>, <<TgtA, ta>>})
      /\ dirs = TemplateDirs \cup TargetDirs
      /\ steps = 0
      /\ last = NoCall

OverwriteResolve == ResolveConflictOf({SrcA}, MaxOverwrites)

OverwriteResolveOuter == ResolveConflictOuterOf({SrcA}, MaxOverwrites)

OverwriteBackup == BackupFileWithin(MaxOverwrites)

NextOverwrites ==
    \/ OverwriteResolve
    \/ OverwriteResolveOuter
    \/ OverwriteBackup

SpecOverwrites == InitOverwrites /\ [][NextOverwrites]_vars

-----------------------------------------------------------------------------
(* Front matter and validation, src/crules/utils.py, src/crules/validator.py *)
(* and src/crules/commands.py; parse_yaml_front_matter of the package.     *)

\* A value a parser returns: kind is "None", "map", "scalar" or "list";
\* names are the strings s with  s in value ; block holds the lines the
\* value was loaded from.
NoneValue == [kind |-> "None", keys |-> {}, names |-> {}, block |-> <<>>]

\* What yaml.safe_load(block) returns; None stands for a YAMLError here,
\* the callers below turn the exception into None.
Loaded(y, block) ==
    IF y.kind \in {"error", "null"}
      THEN NoneValue
      ELSE [kind |-> y.kind, keys |-> y.keys, names |-> members(block),
            block |-> block]

\* The lines j with  content.find("\n---\n")  at the newline before line j:
\* a line --- that is not the first and has a newline after it.
ClosingLines(text) == {j \in 2..(Len(text) - 1) : text[j] = "---"}

\* content[4:end_index] for the closing line j.
BlockBefore(text, j) == SubSeq(text, 2, j - 1)

\* read_yaml_front_matter(content), for a str.
read_yaml_front_matter_outer(text) ==
    IF ~(Len(text) >= 2 /\ text[1] = "---")
      THEN NoneValue
    ELSE IF ClosingLines(text) = {}
      THEN NoneValue
    ELSE LET block == BlockBefore(text, SetMin(ClosingLines(text)))
         IN  IF NonBlank(block) = <<>>
               THEN NoneValue
               ELSE Loaded(safe_load(block), block)

\* open(file_path).read(): the text, or an exception for a file that does
\* not exist or that the process may not read.
open_read(f, path, readable) ==
    IF Exists(f, path) /\ readable
      THEN [raised |-> FALSE, text |-> f[path]]
      ELSE [raised |-> TRUE, text |-> <<"">>]

\* [field for field in required_fields if field not in front_matter]
missing_fields(required_fields, names) ==
    SelectSeq(required_fields, LAMBDA field : field \notin names)

\* The try block of utils.validate_file_content.  required_fields is a
\* list, <<>> also stands for None (the code reads both as
\* required_fields or []).
content_checked_outer(r, required_fields) ==
    IF r.raised
      THEN [raised |-> TRUE, value |-> <<>>]
    ELSE IF ~(Len(r.text) >= 2 /\ r.text[1] = "---")
      THEN [raised |-> FALSE, value |-> required_fields]
    ELSE IF read_yaml_front_matter_outer(r.text).kind = "None"
      THEN [raised |-> FALSE, value |-> required_fields]
    ELSE [raised |-> FALSE,
          value |-> missing_fields(required_fields,
                        read_yaml_front_matter_outer(r.text).names)]

\* except Exception: return required_fields or []
except_required_dropped(body, required_fields) ==
    IF body.raised THEN [raised |-> FALSE, value |-> <<>>] ELSE body

except_required(body, required_fields) ==
    IF body.raised THEN [raised |-> FALSE, value |-> required_fields] ELSE body

\* utils.validate_file_content(file_path, required_fields)
validate_file_content_outer(f, path, readable, required_fields) ==
    except_required(
        content_checked_outer(open_read(f, path, readable), required_fields),
        required_fields)

\* FileValidator(required_fields).validate_file(file_path)
validate_file(f, path, readable, required_fields) ==
    except_required(
        validate_file_content_outer(f, path, readable, required_fields),
        required_fields)

\* What is left of a line after its leading "---".
AfterDashes(line) ==
    CASE line = "---" -> ""
      [] line = "--- " -> " "
      [] OTHER -> "x"

\* parse_yaml_front_matter(content) of the package: content.split("---", 2)
\* cuts at the first two lines that start with ---, the first of them being
\* line 1; raised stands for its YAMLError.
parse_yaml_front_matter(text) ==
    LET seconds == {j \in 2..Len(text) : StartsWithDashes(text[j])}
    IN  IF ~StartsWithDashes(text[1]) \/ seconds = {}
          THEN [raised |-> FALSE, value |-> NoneValue]
          ELSE LET block == <<AfterDashes(text[1])>>
                              \o SubSeq(text, 2, SetMin(seconds) - 1)
                   y == safe_load(block)
               IN  IF y.kind = "error"
                     THEN [raised |-> TRUE, value |-> NoneValue]
                     ELSE [raised |-> FALSE, value |-> Loaded(y, block)]

\* file_path.name has a space in it.
HasSpace(path) == path.stem = "a b"

\* file_path.suffix
suffix(path) == IF path.ext = <<>> THEN "" ELSE path.ext[Len(path.ext)]

\* len(front_matter["description"]) > 100; raised stands for the TypeError
\* of a front matter that is no dict and of a value that has no len().
description_too_long(fm) ==
    IF fm.kind # "map" \/ item(fm.block, "description").type \in {"int", "bool"}
      THEN [raised |-> TRUE, value |-> FALSE]
      ELSE [raised |-> FALSE,
            value |-> item(fm.block, "description").len > 100]

\* The globs check of commands.validate_file_content: the errors it adds.
globs_errors(fm) ==
    IF fm.kind # "map"
      THEN [raised |-> TRUE, value |-> <<>>]
    ELSE IF item(fm.block, "globs").type # "list"
      THEN [raised |-> FALSE, value |-> <<"globs_not_list">>]
    ELSE IF item(fm.block, "globs").len = 0
      THEN [raised |-> FALSE, value |-> <<"globs_empty">>]
    ELSE [raised |-> FALSE, value |-> <<>>]

\* The checks of a rule file's front matter fm, after the errors so far.
\* An exception leaves the checks that follow it out.
rule_checks(errors, fm, required_fields) ==
    LET e1 == errors \o (IF missing_fields(required_fields, fm.names) # <<>>
                           THEN <<"missing">> ELSE <<>>)
        d == IF "description" \in fm.names
               THEN description_too_long(fm)
               ELSE [raised |-> FALSE, value |-> FALSE]
        e2 == e1 \o (IF d.value THEN <<"description_too_long">> ELSE <<>>)
        g == IF "globs" \in fm.names
               THEN globs_errors(fm)
               ELSE [raised |-> FALSE, value |-> <<>>]
    IN  IF d.raised THEN e1 \o <<"exception">>
        ELSE IF g.raised THEN e2 \o <<"exception">>
        ELSE e2 \o g.value

DefaultRequired == <<"description", "globs", "alwaysApply">>

\* commands.validate_file_content(file_path, required_fields): the list of
\* errors.  <<>> stands for required_fields = None.
commands_validate_file_content_outer(f, path, readable, required_fields) ==
    LET e0 == IF HasSpace(path) THEN <<"space">> ELSE <<>>
        r == open_read(f, path, readable)
    IN  IF r.raised
          THEN e0 \o <<"exception">>
        ELSE IF suffix(path) # "mdc"
          THEN e0
        ELSE IF read_yaml_front_matter_outer(r.text).kind = "None"
          THEN e0 \o <<"no_front_matter">>
        ELSE rule_checks(e0, read_yaml_front_matter_outer(r.text),
                 IF required_fields = <<>> THEN DefaultRequired
                                           ELSE required_fields)

\* utils.validate_file_size(file_path, max_size): True, or an exception.
validate_file_size_outer(f, path, max_size) ==
    IF ~Exists(f, path)
      THEN [raised |-> TRUE, exc |-> "FileOperationError", value |-> FALSE]
    ELSE IF getsize(f[path]) > max_size
      THEN [raised |-> TRUE, exc |-> "ValidationError", value |-> FALSE]
    ELSE [raised |-> FALSE, exc |-> "", value |-> TRUE]

-----------------------------------------------------------------------------
(* The functions on one file.  The file system holds one file with a text  *)
(* of the corpus below; every action is one call of a function on it, and  *)
(* last records the call and what it gave.                                 *)

\* Lines of the texts a call is made on.
MaxLines == 4

ParseLines ==
    {"---", "--- ", "---x", "", "description: x", "globs: [y]", "{bad",
     "- description", "description globs"}

ParseTexts == UNION {[1..n -> ParseLines] : n \in 1..MaxLines}

\* Rule files with every combination of the three fields.
RuleTexts ==
    {<<"---">> \o d \o g \o a \o <<"---", "body", "">> :
       d \in {<<>>, <<"description: x">>, <<"description: <100>">>,
              <<"description: <101>">>, <<"description: 2024">>},
       g \in {<<>>, <<"globs: [y]">>, <<"globs: []">>, <<"globs: y">>},
       a \in {<<>>, <<"alwaysApply: false">>}}

\* A rule file whose first line has more than the three dashes.
DashedTexts ==
    {<<first, "description: x", "globs: [y]", "---", "body", "">> :
       first \in {"--- ", "---x"}}

\* Texts of 8 and 9 bytes, and of 1 MiB and one byte more.
SizeTexts == {<<"body">>, <<"body", "">>, <<"<1MiB>">>, <<"<1MiB>", "">>}

MaxSizes == {8, 1024 * 1024}

Subject == P(<<"docs">>, "a", <<"mdc">>)
SubjectMd == P(<<"docs">>, "a", <<"md">>)
SubjectSpaced == P(<<"docs">>, "a b", <<"mdc">>)
Missing == P(<<"docs">>, "gone", <<"mdc">>)

RequiredLists ==
    {<<>>, <<"description">>, <<"globs", "description", "alwaysApply">>}

NoFnCall ==
    [op |-> "none", path |-> NoPath, readable |-> TRUE, required |-> <<>>,
     max_size |-> 0, raised |-> FALSE, value |-> NoneValue, list |-> <<>>,
     flag |-> FALSE]

InitFn ==
    \E path \in {Subject, SubjectMd, SubjectSpaced},
       text \in ParseTexts \cup RuleTexts \cup DashedTexts \cup SizeTexts :
        /\ path # Subject => text \in RuleTexts
        /\ fs = [q \in {path} |-> text]
        /\ dirs = {<<>>, <<"docs">>}
        /\ steps = 0
        /\ last = NoFnCall

\* A call on the text of a file: what it raised and the value it returned.
ParserCall(op, path, r) ==
    /\ last' = [NoFnCall EXCEPT !.op = op, !.path = path,
                                !.raised = r.raised, !.value = r.value]
    /\ UNCHANGED <<fs, dirs, steps>>

\* A call that returns a list of names or of errors.
ListCall(op, path, readable, required, r) ==
    /\ last' = [NoFnCall EXCEPT !.op = op, !.path = path,
                                !.readable = readable, !.required = required,
                                !.raised = r.raised, !.list = r.value]
    /\ UNCHANGED <<fs, dirs, steps>>

\* A call that returns a bool.
FlagCall(op, path, max_size, r) ==
    /\ last' = [NoFnCall EXCEPT !.op = op, !.path = path,
                                !.max_size = max_size,
                                !.raised = r.raised, !.flag = r.value]
    /\ UNCHANGED <<fs, dirs, steps>>

\* The dict read_yaml_front_matter of the package returns, as a value.
AsValue(r, block) ==
    IF r.raised
      THEN [raised |-> TRUE, value |-> NoneValue]
      ELSE [raised |-> FALSE,
            value |-> [kind |-> "map", keys |-> r.keys, names |-> r.keys,
                       block |-> block]]

ReadYamlFrontMatter ==
    \E path \in DOMAIN fs :
        ParserCall("read_yaml_front_matter", path,
            AsValue(read_yaml_front_matter(fs[path]),
                    FrontMatterMatch(fs[path]).block))

ReadYamlFrontMatterOuter ==
    \E path \in DOMAIN fs :
        ParserCall("read_yaml_front_matter_outer", path,
            [raised |-> FALSE,
             value |-> read_yaml_front_matter_outer(fs[path])])

ParseYamlFrontMatter ==
    \E path \in DOMAIN fs :
        ParserCall("parse_yaml_front_matter", path,
            parse_yaml_front_matter(fs[path]))

ValidateFileStructure ==
    \E path \in DOMAIN fs :
        FlagCall("validate_file_structure", path, 0,
            [raised |-> FALSE, value |-> validate_file_structure(fs[path])])

\* The files a validation is called on: those that exist, readable or
\* not, and one that does not exist.
Subjects == {<<path, readable>> \in (DOMAIN fs \cup {Missing}) \X BOOLEAN :
               path = Missing => readable}

ValidateFileContentOuter ==
    \E s \in Subjects, required \in RequiredLists :
        ListCall("validate_file_content_outer", s[1], s[2], required,
            validate_file_content_outer(fs, s[1], s[2], required))

ValidateFile ==
    \E s \in Subjects, required \in RequiredLists :
        ListCall("validate_file", s[1], s[2], required,
            validate_file(fs, s[1], s[2], required))

CommandsValidateFileContentOuter ==
    \E s \in Subjects, required \in RequiredLists :
        ListCall("commands_validate_file_content_outer", s[1], s[2], required,
            [raised |-> FALSE,
             value |-> commands_validate_file_content_outer(
                           fs, s[1], s[2], required)])

ValidateFileSize ==
    \E path \in DOMAIN fs, max_size \in MaxSizes :
        FlagCall("validate_file_size", path, max_size,
            [raised |-> FALSE,
             value |-> validate_file_size(fs[path], max_size)])

ValidateFileSizeOuter ==
    \E path \in DOMAIN fs \cup {Missing}, max_size \in MaxSizes :
        FlagCall("validate_file_size_outer", path, max_size,
            validate_file_size_outer(fs, path, max_size))

NextFn ==
    \/ ReadYamlFrontMatter
    \/ ReadYamlFrontMatterOuter
    \/ ParseYamlFrontMatter
    \/ ValidateFileStructure
    \/ ValidateFileContentOuter
    \/ ValidateFile
    \/ CommandsValidateFileContentOuter
    \/ ValidateFileSize
    \/ ValidateFileSizeOuter

SpecFn == InitFn /\ [][NextFn]_vars

-----------------------------------------------------------------------------
(* list_files of both modules, on a tree of rule files.                    *)

SrcB == P(RulesDir, "b", <<"md">>)

\* The entry of a directory in the listing of its parent.
DirEntry(dir) == P(SubSeq(dir, 1, Len(dir) - 1), dir[Len(dir)], <<>>)

\* What a directory holds: its files and its subdirectories.
Entries(f, d, dir) == FilesIn(f, dir) \cup {DirEntry(x) : x \in SubDirs(d, dir)}

RECURSIVE GlobOrders(_, _, _)
RECURSIVE GlobEach(_, _, _)
\* The orders in which Path.glob("**/*") can yield what is under root: the
\* entries of root in the order the file system lists them, then those of
\* each subdirectory.
GlobOrders(f, d, root) ==
    {here \o below :
       here \in SeqPerms(Entries(f, d, root)),
       below \in UNION {GlobEach(f, d, subs) :
                          subs \in SeqPerms(SubDirs(d, root))}}

GlobEach(f, d, subs) ==
    IF subs = <<>>
      THEN {<<>>}
      ELSE {first \o rest :
              first \in GlobOrders(f, d, Head(subs)),
              rest \in GlobEach(f, d, Tail(subs))}

\* The first list_files of the package (line 216), which the second
\* definition of line 1005 replaces when the module is loaded.
list_files_first(d, root, pattern, walk) ==
    IF root \notin d
      THEN [raised |-> TRUE, value |-> <<>>]
      ELSE [raised |-> FALSE, value |-> walk]

\* list_files(directory, pattern) of the package; walk is the order in
\* which Path.rglob yields the files under the directory, pattern is ""
\* for None.
list_files(d, root, pattern, walk) ==
    IF root \notin d
      THEN [raised |-> FALSE, value |-> <<>>]
    ELSE IF pattern = "*.md"
      THEN [raised |-> FALSE, value |-> SelectSeq(walk, EndsWithMd)]
    ELSE [raised |-> FALSE, value |-> walk]

\* list_files(directory, pattern, recursive) of src/crules/utils.py; glob
\* is the order in which Path.glob yields the entries.
list_files_outer(d, root, pattern, glob) ==
    IF root \notin d
      THEN [raised |-> FALSE, value |-> <<>>]
    ELSE IF pattern = "*.md"
      THEN [raised |-> FALSE, value |-> SelectSeq(glob, EndsWithMd)]
    ELSE [raised |-> FALSE, value |-> glob]

WalkFiles == {SrcA, SrcB, SrcC, SrcT}

Patterns == {"", "*.md"}

NoWalkCall ==
    [op |-> "none", root |-> <<>>, pattern |-> "", recursive |-> FALSE,
     raised |-> FALSE, value |-> <<>>]

\* A template tree with any of the four files; rules/ and rules/sub/ are
\* there when a file needs them, and may be there without one.
InitWalk ==
    \E files \in SUBSET WalkFiles, rules \in BOOLEAN, sub \in BOOLEAN :
        /\ sub => rules
        /\ files # {} => rules
        /\ SrcC \in files => sub
        /\ fs = [q \in files |-> NoFM]
        /\ dirs = {<<>>, TemplateDir}
                    \cup (IF rules THEN {RulesDir} ELSE {})
                    \cup (IF sub THEN {RulesSubDir} ELSE {})
        /\ steps = 0
        /\ last = NoWalkCall

WalkCall(op, root, pattern, recursive, r) ==
    /\ last' = [op |-> op, root |-> root, pattern |-> pattern,
                recursive |-> recursive, raised |-> r.raised,
                value |-> r.value]
    /\ UNCHANGED <<fs, dirs, steps>>

ListFiles ==
    \E root \in {TemplateDir, RulesDir}, pattern \in Patterns :
        \E walk \in WalkOrders(fs, dirs, root) :
            WalkCall("list_files", root, pattern, TRUE,
                list_files(dirs, root, pattern, walk))

ListFilesOuter ==
    \E root \in {TemplateDir, RulesDir}, pattern \in Patterns,
       recursive \in BOOLEAN :
        \E glob \in IF root \notin dirs THEN {<<>>}
                    ELSE IF recursive THEN GlobOrders(fs, dirs, root)
                    ELSE SeqPerms(Entries(fs, dirs, root)) :
            WalkCall("list_files_outer", root, pattern, recursive,
                list_files_outer(dirs, root, pattern, glob))

NextWalk == ListFiles \/ ListFilesOuter

SpecWalk == InitWalk /\ [][NextWalk]_vars

-----------------------------------------------------------------------------
(* validate_command of src/crules/commands.py, on a project tree.          *)

\* rules_dir.glob("*.md") + rules_dir.glob("*.mdc"): the files of the
\* directory itself, not of its subdirectories.
rule_files(f, rules_dir) ==
    {q \in FilesIn(f, rules_dir) : suffix(q) \in {"md", "mdc"}}

\* notes_dir.glob("*.md")
note_files(f, notes_dir) == {q \in FilesIn(f, notes_dir) : suffix(q) = "md"}

\* not content.strip()
is_empty(text) == \A i \in 1..Len(text) : IsBlank(text[i])

\* The required fields of a rule file that  field not in front_matter
\* finds missing, where front_matter = yaml.safe_load(yaml_content) and
\* _, yaml_content, _ = content.split("---", 2)  cuts at the first two
\* occurrences of --- wherever they are.  raised stands for the exception
\* of the try block: the ValueError of a split in fewer than three parts,
\* the YAMLError, the TypeError of  field in None.
rule_missing(text) ==
    LET marks == {i \in 1..Len(text) : StartsWithDashes(text[i])}
        first == SetMin(marks)
        seconds == {j \in marks : j > first}
        block == <<AfterDashes(text[first])>>
                   \o SubSeq(text, first + 1, SetMin(seconds) - 1)
    IN  IF seconds = {} \/ safe_load(block).kind \in {"error", "null"}
          THEN [raised |-> TRUE, value |-> <<>>]
          ELSE [raised |-> FALSE,
                value |-> missing_fields(DefaultRequired, members(block))]

\* The body of the loop over the rule files: TRUE when has_errors is set
\* for the file.
rule_has_errors(text) ==
    IF is_empty(text)
      THEN TRUE
    ELSE IF \A i \in 1..Len(text) : ~StartsWithDashes(text[i])
      THEN TRUE
    ELSE rule_missing(text).raised \/ rule_missing(text).value # <<>>

\* The notes part of validate_command: TRUE when it sets has_errors.
notes_have_errors(f, d, notes_dir) ==
    \/ notes_dir \notin d
    \/ note_files(f, notes_dir) = {}
    \/ \E q \in note_files(f, notes_dir) : is_empty(f[q])

\* validate_command(path): what it returns.
validate_command_outer(f, d, path) ==
    IF path \o <<"rules">> \notin d
      THEN "False"
    ELSE IF rule_files(f, path \o <<"rules">>) = {}
      THEN "False"
    ELSE IF \/ \E q \in rule_files(f, path \o <<"rules">>) :
                  rule_has_errors(f[q])
            \/ notes_have_errors(f, d, path \o <<"notes">>)
      THEN "False"
    ELSE "True"

\* The files of the project trees.
SrcMdc == P(RulesDir, "b", <<"mdc">>)

\* A rule file whose front matter comes after a first line of text.
LateFM ==
    <<"body", "---", "description: x", "globs: [y]", "alwaysApply: false",
      "---", "body", "">>

\* A rule file that ends with its body, without a newline after it.
NoFinalNewline ==
    <<"---", "description: x", "globs: [y]", "alwaysApply: false", "---",
      "body">>

ProjectRuleTexts ==
    {<<>>, RuleOK, NoFinalNewline, NoDesc, NoFM, LateFM, <<"">>, <<" ", "">>,
     <<"---", "description: x", "">>, <<"---", "---", "body", "">>,
     <<"---", "description globs", "---", "">>, <<"---", "{bad", "---", "">>}

ProjectNoteTexts == {<<>>, NoteOK, NoFM, <<"">>, <<" ", "">>}

\* A project tree: rules/ (rd) with a.md, b.mdc and sub/c.md, or without
\* it; notes/ (nd) with n.md, or without it.
InitProject ==
    \E a \in ProjectRuleTexts, b \in {<<>>, RuleOK, NoDesc, <<"">>},
       c \in {<<>>, NoFM}, n \in ProjectNoteTexts, rd \in BOOLEAN,
       nd \in BOOLEAN :
      /\ ~rd => a = <<>> /\ b = <<>> /\ c = <<>>
      /\ ~nd => n = <<>>
      /\ fs = FileSystemOf({<<SrcA, a>>, <<SrcMdc, b>>, <<SrcC, c>>,
                            <<SrcN, n>>})
      /\ dirs = {<<>>, TemplateDir}
                  \cup (IF rd THEN {RulesDir, RulesSubDir} ELSE {})
                  \cup (IF nd THEN {NotesDir} ELSE {})
      /\ steps = 0
      /\ last = NoCall

\* commands.validate_command(path) of src/crules, on the project tree.
ValidateCommandOuter ==
    /\ steps < 1
    /\ last' = [NoCall EXCEPT !.op = "validate_command_outer",
                              !.template = TemplateDir,
                              !.pre = fs,
                              !.predirs = dirs,
                              !.ret = validate_command_outer(fs, dirs,
                                                             TemplateDir)]
    /\ steps' = steps + 1
    /\ UNCHANGED <<fs, dirs>>

NextProject == ValidateCommandOuter

SpecProject == InitProject /\ [][NextProject]_vars

-----------------------------------------------------------------------------
(* Vocabulary of the properties.                                           *)

\* b is a backup of the file t: t's name followed by suffixes ending in bak.
IsBackupOf(b, t) ==
    /\ b.dir = t.dir
    /\ b.stem = t.stem
    /\ Len(b.ext) > Len(t.ext)
    /\ SubSeq(b.ext, 1, Len(t.ext)) = t.ext
    /\ b.ext[Len(b.ext)] = "bak"

\* b is named <t>.<timestamp>.bak
IsTimestampedBackupOf(b, t) == IsBackupOf(b, t) /\ Len(b.ext) = Len(t.ext) + 2

\* The files the last call created.
Created == DOMAIN fs \ DOMAIN last.pre

\* The last call wrote the file t: created it, or changed its content.
Written(t) ==
    /\ t \in DOMAIN fs
    /\ t \notin DOMAIN last.pre \/ fs[t] # last.pre[t]

IsRuleSource(source) == IsPrefix(RulesDir, source.dir)

IsNoteSource(source) == IsPrefix(NotesDir, source.dir)

\* The front matter of a text as the specification reads it: the block
\* between a first line --- and the next line ---.
FrontMatterOf(text) ==
    IF text[1] = "---" /\ \E j \in 2..Len(text) : text[j] = "---"
      THEN safe_load(SubSeq(text, 2,
               SetMin({j \in 2..Len(text) : text[j] = "---"}) - 1))
      ELSE [kind |-> "absent", keys |-> {}]

\* The text passes the validation of its category and the size limit.
PassesValidation(source, text) ==
    /\ getsize(text) <= 1024 * 1024
    /\ FrontMatterOf(text).kind = "map"
    /\ IF IsRuleSource(source)
         THEN {"description", "globs", "alwaysApply"}
                \subseteq FrontMatterOf(text).keys
         ELSE "description" \in FrontMatterOf(text).keys

\* The target a run of the command op gives the template file source.
RunTarget(op, source) ==
    IF op = "deploy_command_outer"
      THEN IF IsRuleSource(source)
             THEN rule_target_outer(source, RulesDir, <<>>)
             ELSE note_target_outer(source, NotesDir, <<>>)
    ELSE IF op = "init_command_outer"
      THEN project_target(source, TemplateDir, ProjectDir)
    ELSE TargetFor(source)

\* The pairs of a source and its target the last call worked on.
Pairs ==
    IF last.op \in {"resolve_conflict", "resolve_conflict_outer"}
      THEN {<<last.source, last.target>>}
      ELSE {<<x, RunTarget(last.op, x)>> : x \in Range(last.order)}

\* The targets the documentation gives the .md files of the template.
DocumentedTarget(source) ==
    IF IsRuleSource(source)
      THEN P(<<".cursor", "rules">> \o relpath(source.dir, RulesDir),
             source.stem,
             SubSeq(source.ext, 1, Len(source.ext) - 1) \o <<"mdc">>)
      ELSE P(<<"notes">> \o relpath(source.dir, NotesDir), source.stem,
             source.ext)

\* The .md files the template held when the last call began.
TemplateMd ==
    {q \in DOMAIN last.pre :
        (IsRuleSource(q) \/ IsNoteSource(q)) /\ EndsWithMd(q)}

-----------------------------------------------------------------------------
(* Properties.                                                             *)

\* C1: after every call of resolve_conflict, init_command and
\* deploy_command, every target that existed before the call with another
\* content than its source and that the call deleted or gave another
\* content has a backup, created by the call, that holds the content the
\* target had before.
C1_BackupBeforeOverwrite ==
    \A pr \in Pairs :
        (/\ pr[1] \in DOMAIN last.pre
         /\ pr[2] \in DOMAIN last.pre
         /\ last.pre[pr[2]] # last.pre[pr[1]]
         /\ pr[2] \notin DOMAIN fs \/ fs[pr[2]] # last.pre[pr[2]])
          => \E b \in Created :
                IsBackupOf(b, pr[2]) /\ fs[b] = last.pre[pr[2]]

\* C2: resolve_conflict without force, called for a target that is another
\* file than the source and holds the same bytes, returns True without
\* asking and leaves the file system as it was; a target of the same size
\* with other bytes is not treated so.
C2_SkipIdentical ==
    (/\ last.op = "resolve_conflict"
     /\ ~last.force
     /\ last.source \in DOMAIN last.pre
     /\ last.target \in DOMAIN last.pre
     /\ last.source # last.target)
      => /\ last.pre[last.target] = last.pre[last.source]
              => last.ret = "True" /\ last.asked = {} /\ fs = last.pre
         /\ (/\ last.pre[last.target] # last.pre[last.source]
             /\ getsize(last.pre[last.target])
                  = getsize(last.pre[last.source]))
              => ~(last.ret = "True" /\ last.asked = {} /\ fs = last.pre)

\* C3: resolve_conflict with force, called for a target that exists with
\* another content than the source, returns True (no copy failing on the
\* device), creates exactly one file, named <target>.<timestamp>.bak and
\* holding the content the target had, and leaves the target with the
\* content of the source.
C3_ForceOverwrite ==
    (/\ last.op = "resolve_conflict"
     /\ last.force
     /\ last.source \in DOMAIN last.pre
     /\ last.target \in DOMAIN last.pre
     /\ last.pre[last.target] # last.pre[last.source]
     /\ ~last.iofault)
      => /\ last.ret = "True"
         /\ \E b \in Created :
              /\ Created = {b}
              /\ IsTimestampedBackupOf(b, last.target)
              /\ fs[b] = last.pre[last.target]
         /\ fs[last.target] = last.pre[last.source]

\* C4: resolve_conflict asks for confirmation exactly when the target
\* exists, force is not set and the target's content differs from the
\* source's; when the target does not exist and the call returns True the
\* target holds the content of the source.
C4_AsksIffConflict ==
    (last.op = "resolve_conflict" /\ last.source \in DOMAIN last.pre)
      => /\ (last.asked # {})
              <=> (/\ last.target \in DOMAIN last.pre
                   /\ ~last.force
                   /\ last.pre[last.target] # last.pre[last.source])
         /\ (last.target \notin DOMAIN last.pre /\ last.ret = "True")
              => /\ last.target \in DOMAIN fs
                 /\ fs[last.target] = last.pre[last.source]

\* C5: when the operator refuses the overwrite of a target that differs
\* from its source, resolve_conflict returns False and leaves the file
\* system as it was, backups included; a run of deploy_command in which
\* that happens leaves the target as it was, creates no backup of it,
\* counts the file as failed and does not report success: it returns
\* False unless an exception leaves it.
C5_DeniedKeepsTarget ==
    \A pr \in Pairs :
        (/\ last.op \in {"resolve_conflict", "deploy_command"}
         /\ pr[2] \in last.denied
         /\ last.pre[pr[2]] # last.pre[pr[1]])
          => /\ ~last.force
             /\ pr[2] \in DOMAIN fs
             /\ fs[pr[2]] = last.pre[pr[2]]
             /\ ~\E b \in Created : IsBackupOf(b, pr[2])
             /\ last.op = "resolve_conflict"
                  => last.ret = "False" /\ fs = last.pre
             /\ last.op = "deploy_command"
                  => /\ pr[1] \in last.failed
                     /\ last.ret # "True"
                     /\ last.errored = {} => last.ret = "False"

\* A run of deploy_command in which the operator refused the overwrite of
\* a differing target and that returned False.
C5_Witness ==
    /\ last.op = "deploy_command"
    /\ last.ret = "False"
    /\ \E pr \in Pairs :
         /\ pr[2] \in last.denied
         /\ last.pre[pr[2]] # last.pre[pr[1]]
         /\ pr[1] \in last.failed

\* C6: a run of init_command or deploy_command in which a file failed (it
\* was rejected, its overwrite was refused, or an error was raised at it)
\* does not return True.
C6_SuccessFlag ==
    (/\ last.op \in {"init_command", "deploy_command",
                     "deploy_command_outer"}
     /\ last.failed \cup last.errored # {})
      => last.ret # "True"

\* C7: in a run of init_command or deploy_command, an error raised by
\* resolve_conflict at one file makes that file failed, every file of the
\* run is still visited, and every other file the run deployed holds the
\* content of its source.
C7_ErrorIsolated ==
    (/\ last.op \in {"init_command", "deploy_command"}
     /\ last.errored \cap last.reached # {})
      => /\ last.errored \subseteq last.failed
         /\ last.visited = last.order
         /\ \A x \in last.reached \ (last.errored \cup last.failed) :
              /\ RunTarget(last.op, x) \in DOMAIN fs
              /\ fs[RunTarget(last.op, x)] = last.pre[x]

\* C8: a deploy run over a template whose .md files all pass validation,
\* with rules/a.md among them and no .cursor/rules/a.mdc before, and with
\* no copy failing on the device, leaves .cursor/rules/a.mdc with the
\* content of rules/a.md and returns True.
C8_DeployValidRule ==
    (/\ last.op \in {"deploy_command", "deploy_command_outer"}
     /\ SrcA \in Range(last.order)
     /\ {RulesDir, NotesDir} \subseteq dirs
     /\ \A q \in TemplateMd : PassesValidation(q, last.pre[q])
     /\ DocumentedTarget(SrcA) \notin DOMAIN last.pre
     /\ ~last.iofault)
      => /\ DocumentedTarget(SrcA) \in DOMAIN fs
         /\ fs[DocumentedTarget(SrcA)] = last.pre[SrcA]
         /\ last.ret = "True"

\* C9: a run of init_command or deploy_command writes the target of no
\* file that fails the validation of its category.
C9_InvalidNotWritten ==
    last.op \in {"init_command", "deploy_command", "deploy_command_outer"}
      => \A x \in Range(last.order) :
            ~PassesValidation(x, last.pre[x])
              => ~Written(RunTarget(last.op, x))

\* C10: after a deploy run that returned True every .md file of rules/
\* and of notes/ has its target, .cursor/rules/<path>.mdc or
\* notes/<path>, and the run created no other file.
C10_TargetPaths ==
    (last.op \in {"deploy_command", "deploy_command_outer"}
     /\ last.ret = "True")
      => /\ \A q \in TemplateMd : DocumentedTarget(q) \in DOMAIN fs
         /\ \A t \in Created : \E q \in TemplateMd : t = DocumentedTarget(q)

\* C11: utils.validate_file_content and FileValidator.validate_file never
\* raise, and they return the whole list of required fields for a file
\* that does not exist or cannot be read and for a text without an opening
\* --- line, without a closing --- line, with an empty block or with a
\* block that is not valid YAML.
C11_FailClosed ==
    last.op \in {"validate_file_content_outer", "validate_file"}
      => /\ ~last.raised
         /\ (\/ ~Exists(fs, last.path)
             \/ ~last.readable
             \/ FrontMatterOf(fs[last.path]).kind \in {"absent", "null", "error"})
              => last.list = last.required

C11_Witness ==
    /\ last.op = "validate_file"
    /\ Exists(fs, last.path) /\ last.readable
    /\ FrontMatterOf(fs[last.path]).kind = "error"
    /\ Len(last.required) = 3
    /\ last.list = last.required

\* C12: for a readable file whose front matter is a non-empty mapping M,
\* utils.validate_file_content returns exactly the required fields that
\* are not keys of M, in the order of required_fields; the result is empty
\* iff every required field is a key of M.
C12_MissingFields ==
    (/\ last.op = "validate_file_content_outer"
     /\ Exists(fs, last.path) /\ last.readable
     /\ FrontMatterOf(fs[last.path]).kind = "map")
      => /\ last.list =
              SelectSeq(last.required,
                  LAMBDA field : field \notin FrontMatterOf(fs[last.path]).keys)
         /\ last.list = <<>>
              <=> Range(last.required) \subseteq FrontMatterOf(fs[last.path]).keys

\* C13: a block that loads as a scalar or as a list is a parse failure:
\* utils.read_yaml_front_matter returns a mapping or nothing, and
\* utils.validate_file_content reports every required field as missing for
\* such a file, also when the scalar or the list holds the field names.
C13_NotAMapping ==
    /\ last.op = "read_yaml_front_matter_outer"
         => last.value.kind \in {"None", "map"}
    /\ (/\ last.op = "validate_file_content_outer"
        /\ Exists(fs, last.path) /\ last.readable
        /\ FrontMatterOf(fs[last.path]).kind \in {"scalar", "list"})
         => last.list = last.required

\* C14: for a text whose first line is not exactly ---, no parser returns
\* or accepts a mapping: read_yaml_front_matter of both modules and
\* parse_yaml_front_matter give no mapping, validate_file_structure does
\* not return True.
C14_NoOpeningMarker ==
    (/\ last.op \in {"read_yaml_front_matter", "read_yaml_front_matter_outer",
                     "parse_yaml_front_matter", "validate_file_structure"}
     /\ fs[last.path][1] # "---")
      => /\ last.value.kind # "map"
         /\ ~last.flag

\* C15: for a text with the opening --- line and a closing --- line (with
\* its newline) and only blank lines between them, read_yaml_front_matter
\* of either module returns an empty mapping: it does not raise and does
\* not give the result of a text without front matter.
C15_EmptyBlock ==
    (/\ last.op \in {"read_yaml_front_matter", "read_yaml_front_matter_outer"}
     /\ fs[last.path][1] = "---"
     /\ \E j \in 2..(Len(fs[last.path]) - 1) :
           /\ fs[last.path][j] = "---"
           /\ \A k \in 2..(j - 1) : IsBlank(fs[last.path][k]))
      => /\ ~last.raised
         /\ last.value.kind = "map"
         /\ last.value.keys = {}

\* C16: the block ends at the first line after the opening marker that is
\* exactly ---, be it followed by a newline, by body text or by the end of
\* the input: a text whose first line is --- and whose block up to that
\* line is a mapping gives that mapping in read_yaml_front_matter of either
\* module, and is not taken as unterminated.
C16_ClosingMarker ==
    (/\ last.op \in {"read_yaml_front_matter", "read_yaml_front_matter_outer"}
     /\ FrontMatterOf(fs[last.path]).kind = "map")
      => /\ ~last.raised
         /\ last.value.kind = "map"
         /\ last.value.keys = FrontMatterOf(fs[last.path]).keys

\* The block of a text as the specification reads it: the lines between
\* the first line --- and the next line ---.
BlockOf(text) ==
    SubSeq(text, 2, SetMin({j \in 2..Len(text) : text[j] = "---"}) - 1)

\* The call reported that globs is no list or an empty one.
GlobsReported ==
    \E e \in Range(last.list) : e \in {"globs_not_list", "globs_empty"}

\* The globs of the rule file are there and are not a non-empty list.
GlobsViolated(text) ==
    /\ "globs" \in FrontMatterOf(text).keys
    /\ ~(/\ item(BlockOf(text), "globs").type = "list"
         /\ item(BlockOf(text), "globs").len > 0)

\* The description of the rule file is there and has over 100 characters.
DescriptionViolated(text) ==
    /\ "description" \in FrontMatterOf(text).keys
    /\ item(BlockOf(text), "description").type = "str"
    /\ item(BlockOf(text), "description").len > 100

\* A required field of the call is absent from the rule file.
FieldMissing(text) ==
    \E field \in Range(IF last.required = <<>> THEN DefaultRequired
                                               ELSE last.required) :
        field \notin FrontMatterOf(text).keys

\* C17: commands.validate_file_content on a readable rule file (.mdc, its
\* front matter a mapping) never raises; it reports a globs violation iff
\* globs is present and is not a non-empty list, a description that is too
\* long iff description is present and has over 100 characters, the
\* missing-field error iff a required field is absent, and it returns the
\* empty list iff none of these holds and the file name has no space.
C17_FieldConstraints ==
    (/\ last.op = "commands_validate_file_content_outer"
     /\ Exists(fs, last.path) /\ last.readable
     /\ suffix(last.path) = "mdc"
     /\ fs[last.path] \in RuleTexts
     /\ FrontMatterOf(fs[last.path]).kind = "map")
      => /\ ~last.raised
         /\ GlobsReported <=> GlobsViolated(fs[last.path])
         /\ "description_too_long" \in Range(last.list)
              <=> DescriptionViolated(fs[last.path])
         /\ "missing" \in Range(last.list) <=> FieldMissing(fs[last.path])
         /\ last.list = <<>>
              <=> /\ ~GlobsViolated(fs[last.path])
                  /\ ~DescriptionViolated(fs[last.path])
                  /\ ~FieldMissing(fs[last.path])
                  /\ ~HasSpace(last.path)

\* C18: validate_file_size(file, max_size) of either module returns True
\* iff the file has at most max_size bytes, and returns False (it does not
\* raise) for a file of more bytes.
C18_SizeLimit ==
    (/\ last.op \in {"validate_file_size", "validate_file_size_outer"}
     /\ Exists(fs, last.path))
      => /\ ~last.raised
         /\ last.flag <=> getsize(fs[last.path]) <= last.max_size

\* The place of a file of the tree in the lexicographic order of the paths:
\* rules/a.md, rules/b.md, rules/sub/c.md, rules/t.txt.
Rank(path) ==
    CASE path = SrcA -> 1
      [] path = SrcB -> 2
      [] path = SrcC -> 3
      [] OTHER -> 4

\* The .md files at any depth under root.
MdUnder(root) == {q \in DOMAIN fs : IsPrefix(root, q.dir) /\ EndsWithMd(q)}

\* C19: a recursive list_files with the filter *.md on a root that exists
\* returns every .md file at any depth under the root, each once, in the
\* lexicographic order of the paths, whatever the order in which the file
\* system lists the entries.
C19_SortedWalk ==
    (/\ last.op \in {"list_files", "list_files_outer"}
     /\ last.root \in dirs
     /\ last.pattern = "*.md" /\ last.recursive)
      => /\ Range(last.value) = MdUnder(last.root)
         /\ Len(last.value) = Cardinality(MdUnder(last.root))
         /\ \A i, j \in 1..Len(last.value) :
               i < j => Rank(last.value[i]) < Rank(last.value[j])

-----------------------------------------------------------------------------
(* The template hierarchy and the exit status.                             *)

\* The call recorded in last ran on the template of the tree, and the
\* template lacked rules/ or notes/ when it started.
LacksSubtree ==
    /\ last.template \in last.predirs
    /\ \/ last.template \o <<"rules">> \notin last.predirs
       \/ last.template \o <<"notes">> \notin last.predirs

\* C21: when the template root lacks rules/ or notes/, init_command,
\* deploy_command and validate_command fail fast: the command returns
\* False and no file is created or changed.
C21_FailFast ==
    (/\ last.op \in {"init_command", "deploy_command", "validate_command",
                     "deploy_command_outer"}
     /\ LacksSubtree)
      => last.ret = "False" /\ fs = last.pre

\* C22: the exit status of a CLI command reflects the outcome: whenever
\* the command function it runs returns False, the invocation ends with
\* an exit status that is not 0.
C22_ExitStatus ==
    (last.op \in CliCommands /\ last.ret = "False") => last.exit # 0

-----------------------------------------------------------------------------
(* Repeated runs, round trips and the source.                              *)

\* When the last call began, the template was deployed: it held .md files
\* and the target the command op gives each of them existed with the
\* content of its source, as a deploy leaves them.
Deployed(op) ==
    /\ TemplateMd # {}
    /\ \A q \in TemplateMd :
          /\ RunTarget(op, q) \in DOMAIN last.pre
          /\ last.pre[RunTarget(op, q)] = last.pre[q]

\* C23: a deploy without force over a deployed template whose sources are
\* unchanged skips every file: it asks for no confirmation, changes no
\* target, creates no file, and counts no file as failed.
C23_Idempotent ==
    (/\ last.op \in {"deploy_command", "deploy_command_outer"}
     /\ ~last.force
     /\ Deployed(last.op))
      => /\ fs = last.pre
         /\ last.asked = {}
         /\ last.failed = {}

\* C24: after resolve_conflict has returned True for a target that did
\* not exist, the target exists and holds the bytes of the source, with
\* force and without it.
C24_RoundTrip ==
    (/\ last.op \in {"resolve_conflict", "resolve_conflict_outer"}
     /\ last.ret = "True"
     /\ last.target \notin DOMAIN last.pre)
      => /\ last.target \in DOMAIN fs
         /\ fs[last.target] = last.pre[last.source]

\* C25: the copy and the backup of resolve_conflict are atomic: after a
\* call, failed part-way or not, the target is absent as before, or holds
\* its complete previous content, or holds the complete content of the
\* source, and a target that was overwritten has a backup with its complete
\* previous content.
C25_Atomic ==
    (last.op = "resolve_conflict" /\ last.source \in DOMAIN last.pre)
      => /\ \/ last.target \notin DOMAIN fs /\ last.target \notin DOMAIN last.pre
            \/ /\ last.target \in DOMAIN fs
               /\ last.target \in DOMAIN last.pre
               /\ fs[last.target] = last.pre[last.target]
            \/ /\ last.target \in DOMAIN fs
               /\ fs[last.target] = last.pre[last.source]
         /\ (/\ last.target \in DOMAIN fs
             /\ last.target \in DOMAIN last.pre
             /\ fs[last.target] # last.pre[last.target])
              => \E b \in DOMAIN fs :
                    IsBackupOf(b, last.target) /\ fs[b] = last.pre[last.target]

\* C26: init_command of src/crules/commands.py with a template directory
\* that does not exist raises FileOperationError and leaves the file system
\* as it was: no file and no directory is created, so a project directory
\* that did not exist before the call does not exist after it.
C26_MissingTemplate ==
    (/\ last.op = "init_command_outer"
     /\ last.template \notin last.predirs)
      => /\ last.ret = "FileOperationError"
         /\ fs = last.pre
         /\ dirs = last.predirs

-----------------------------------------------------------------------------
(* validate_command of src/crules/commands.py.                             *)

\* The text has a line that is not blank.
NonEmptyText(text) == \E i \in 1..Len(text) : ~IsBlank(text[i])

\* The tree the last call read validates: rules/ exists and holds a rule
\* file, every rule file is not empty and has a front matter with
\* description, globs and alwaysApply, notes/ exists and holds a note file,
\* and every note file is not empty.
ProjectValid ==
    /\ RulesDir \in dirs
    /\ rule_files(fs, RulesDir) # {}
    /\ \A q \in rule_files(fs, RulesDir) :
          /\ NonEmptyText(fs[q])
          /\ FrontMatterOf(fs[q]).kind = "map"
          /\ {"description", "globs", "alwaysApply"}
               \subseteq FrontMatterOf(fs[q]).keys
    /\ NotesDir \in dirs
    /\ note_files(fs, NotesDir) # {}
    /\ \A q \in note_files(fs, NotesDir) : NonEmptyText(fs[q])

\* C28: validate_command(path) of src/crules/commands.py raises nothing
\* and returns True exactly when the tree validates, False otherwise.
C28_ValidateCommand ==
    last.op = "validate_command_outer"
      => /\ last.ret \in {"True", "False"}
         /\ last.ret = "True" <=> ProjectValid

-----------------------------------------------------------------------------
(* Sequences of overwrites.                                                *)

\* The complete contents the files of the tree can have.
WholeTexts == {RuleOK, RuleOK2, NoFM}

\* C29: over a sequence of calls on one target, a backup that exists is
\* not overwritten or deleted by a later call of resolve_conflict or
\* backup_file (so the content it saved stays recoverable), and every
\* forced overwrite by resolve_conflict produces a backup of its own that
\* holds the content the target had.  Calls in which a copy fails on the
\* device, and backups such a call left cut short, are left out.
C29_BackupsKept ==
    (last.op \in {"resolve_conflict", "backup_file"} /\ ~last.iofault)
      => /\ \A b \in DOMAIN last.pre :
               (IsBackupOf(b, TgtA) /\ last.pre[b] \in WholeTexts)
                 => b \in DOMAIN fs /\ fs[b] = last.pre[b]
         /\ (/\ last.op = "resolve_conflict"
             /\ last.force
             /\ last.target \in DOMAIN last.pre
             /\ Written(last.target)
             /\ fs[last.target] # last.pre[last.target])
              => \E b \in Created :
                    /\ IsBackupOf(b, last.target)
                    /\ fs[b] = last.pre[last.target]

-----------------------------------------------------------------------------
(* The source.                                                             *)

\* The files of the template when the last call began.
TemplateFiles == {q \in DOMAIN last.pre : IsPrefix(TemplateDir, q.dir)}

\* C30: resolve_conflict of both modules, init_command and deploy_command
\* modify and delete no source file, whatever the target (the source itself
\* included), force and the answer, and whether the call returns True,
\* returns False or raises: every file of the template that existed before
\* the call exists after it with the same content.
C30_SourceKept ==
    (last.op \in {"resolve_conflict", "resolve_conflict_outer",
                  "init_command", "deploy_command", "init_command_outer",
                  "deploy_command_outer"})
      => \A q \in TemplateFiles : q \in DOMAIN fs /\ fs[q] = last.pre[q]

====
